---- MODULE Spec2Model ----
(***************************************************************************)
(* Model of better_jamf_printer_policy.py: one run of main(), from parsed  *)
(* arguments to process exit.                                              *)
(*                                                                         *)
(* A Python str is a sequence of one-character strings ("" is << >>).      *)
(* The text of `lpstat -s` is a sequence of lines; a line is a sequence of *)
(* tokens, where the two literals of the regular expression, "device for " *)
(* and ": ", are tokens of their own.  A Python value that may be None is  *)
(* a record [none, s].  An uncaught Python exception ends the interpreter  *)
(* with a traceback and process status 1: fault = TRUE, exit_code = 1.     *)
(***************************************************************************)
EXTENDS Integers, Sequences, FiniteSets, TLC

\* ------------------------------------------------------------------------
\* Bounds of the explored inputs
\* ------------------------------------------------------------------------
MaxCsvLen == 2

MaxLines == 2

\* ------------------------------------------------------------------------
\* Python values
\* ------------------------------------------------------------------------
None == [none |-> TRUE, s |-> << >>]

Str(s) == [none |-> FALSE, s |-> s]

\* str(x) for x a str or None
PyStr(x) == IF x.none THEN <<"N", "o", "n", "e">> ELSE x.s

\* x == "" for x a str or None
IsEmptyStr(x) == (~x.none) /\ x.s = << >>

DIGITS == <<"0", "1", "2", "3", "4", "5", "6", "7", "8", "9">>

RECURSIVE IntStr(_)
\* str(n) for a non-negative int
IntStr(n) == IF n < 10 THEN <<DIGITS[n + 1]>>
             ELSE IntStr(n \div 10) \o <<DIGITS[(n % 10) + 1]>>

\* str(uid) for uid an int or None
UidStr(uid) == IF uid.none THEN <<"N", "o", "n", "e">> ELSE IntStr(uid.n)

LowerChar(c) ==
    CASE c = "O" -> "o" [] c = "V" -> "v" [] c = "E" -> "e" [] c = "R" -> "r"
      [] c = "W" -> "w" [] c = "I" -> "i" [] c = "T" -> "t" [] c = "K" -> "k"
      [] c = "P" -> "p" [] OTHER -> c

\* s.lower()
Lower(s) == [i \in 1..Len(s) |-> LowerChar(s[i])]

\* Index of the first occurrence of c in s, 0 when there is none
FirstIndex(s, c) ==
    IF \E i \in 1..Len(s) : s[i] = c
    THEN CHOOSE i \in 1..Len(s) : s[i] = c /\ \A j \in 1..(i - 1) : s[j] # c
    ELSE 0

RECURSIVE Split(_, _)
\* s.split(c) for a one-character separator c
Split(s, c) ==
    LET i == FirstIndex(s, c)
    IN  IF i = 0 THEN <<s>>
        ELSE <<SubSeq(s, 1, i - 1)>> \o Split(SubSeq(s, i + 1, Len(s)), c)

RECURSIVE JoinList(_, _)
\* sep.join(items) for a list of str
JoinList(sep, items) ==
    IF Len(items) = 0 THEN << >>
    ELSE IF Len(items) = 1 THEN items[1]
    ELSE items[1] \o sep \o JoinList(sep, Tail(items))

\* sep.join(opts): join iterates its argument, and iterating a str yields
\* its characters
Join(sep, opts) ==
    IF opts.type = "str"
    THEN JoinList(sep, [i \in 1..Len(opts.val) |-> <<opts.val[i]>>])
    ELSE JoinList(sep, opts.val)

\* ------------------------------------------------------------------------
\* Literals of the program
\* ------------------------------------------------------------------------
SHARED == <<"p", "r", "i", "n", "t", "e", "r", "-", "i", "s", "-",
            "s", "h", "a", "r", "e", "d", "=", "F", "a", "l", "s", "e">>

OPT_SEP == <<" ", "-", "o", " ">>

OVERWRITE == <<"o", "v", "e", "r", "w", "r", "i", "t", "e">>

BENIGN_RETURNCODES == {<<"2">>, <<"3">>, <<"2", "3", "9">>, <<"2", "4", "3">>}

\* ------------------------------------------------------------------------
\* return_installed_printer_names: the regular expression
\* ------------------------------------------------------------------------
DEVICE_FOR == "device for "

COLON_SP == ": "

\* Last index j > i with line[j] = ": ", 0 when there is none
LastColon(line, i) ==
    IF \E j \in (i + 1)..Len(line) : line[j] = COLON_SP
    THEN CHOOSE j \in (i + 1)..Len(line) :
            line[j] = COLON_SP /\ \A k \in (j + 1)..Len(line) : line[k] # COLON_SP
    ELSE 0

\* re.search(r'device for (.*): ', line) is not None
Matches(line) ==
    LET i == FirstIndex(line, DEVICE_FOR)
    IN  i # 0 /\ LastColon(line, i) # 0

\* match.group(1): greedy, up to the last ": " of the line
Group1(line) ==
    LET i == FirstIndex(line, DEVICE_FOR)
    IN  SubSeq(line, i + 1, LastColon(line, i) - 1)

RECURSIVE InstalledPrinters(_)
\* [match.group(1) for line in out.splitlines() for match in [...] if match]
InstalledPrinters(lines) ==
    IF Len(lines) = 0 THEN << >>
    ELSE (IF Matches(lines[1]) THEN <<Group1(lines[1])>> ELSE << >>)
         \o InstalledPrinters(Tail(lines))

\* Variant: `if printers:` in place of the membership test
PrinterIsInstalled_AnyPrinter(name, installed) == Len(installed) > 0

\* args.printer_name in printers
PrinterIsInstalled(name, installed) ==
    \E i \in 1..Len(installed) : installed[i] = name

\* ------------------------------------------------------------------------
\* Results of the functions that run one external command
\* ------------------------------------------------------------------------
\* An outcome of subprocess.Popen(...).communicate(): launched = FALSE is an
\* OSError raised by Popen, and then out and err are never bound.
CmdOutcomes ==
    {[launched |-> FALSE, err |-> "unbound", phrase |-> FALSE]}
    \cup [launched : {TRUE}, err : {"empty", "text"}, phrase : BOOLEAN]

\* Variant: `if not err:` in place of `if err:`
RemovePrinterSuccess_Inverted(o) == o.launched /\ o.err # "empty"

\* remove_printer's return value
RemovePrinterSuccess(o) == o.launched /\ o.err = "empty"

\* install_printer's return value
InstallPrinterSuccess(o) == o.launched /\ o.err = "empty"

\* return_installed_printer_names' success, when it returns
QuerySuccess(o) == o.launched /\ o.err = "empty"

\* Variant: without the final os.path.exists check
CallJamfPolicySuccess_NoFileCheck(o, exists) ==
    /\ o.launched
    /\ o.err = "empty"
    /\ ~o.phrase

\* call_jamf_policy's return value; exists is os.path.exists(path) after
\* the trigger
CallJamfPolicySuccess(o, exists) ==
    /\ o.launched
    /\ o.err = "empty"
    /\ ~o.phrase
    /\ exists

\* What the functions write to standard output around the command
CmdWrites(o, exceptText) ==
    IF ~o.launched THEN <<exceptText>>
    ELSE IF o.err # "empty"
         THEN <<"The following error occurred", "See the next lines", "out">>
         ELSE << >>

\* ------------------------------------------------------------------------
\* Inputs
\* ------------------------------------------------------------------------
CsvAlphabet == {"a", ","}

RECURSIVE StringsUpTo(_, _)
StringsUpTo(alphabet, n) ==
    IF n = 0 THEN {<< >>}
    ELSE LET shorter == StringsUpTo(alphabet, n - 1)
         IN  shorter \cup {Append(s, c) : s \in shorter, c \in alphabet}

CsvInputs ==
    StringsUpTo(CsvAlphabet, MaxCsvLen)
      \cup {SHARED, <<"a", ",">> \o SHARED, SHARED \o <<",", "a">>}

UriInputs == {<< >>, <<"u">>}

PpdInputs == {<< >>, <<"/", "m", ".", "p", "p", "d">>}

DescriptionInputs == {<<"d">>}

EventInputs == {<< >>, <<"e">>}

OverwriteInputs == {OVERWRITE, <<"O", "v", "e", "r", "W", "r", "i", "t", "e">>,
                    <<"k", "e", "e", "p">>}

PRINTER == <<"P">>

\* build_argparser: the optional positionals are filled in order, so the
\* ones supplied form a prefix of (printer_opts_csv, printer_uri, ppd_path,
\* printer_description, jamf_event, overwrite_ppd); the others take their
\* defaults (None, or "overwrite" for overwrite_ppd).
ParsedArgs(mode, n, csv, uri, ppd, desc, event, ow) ==
    [mode                |-> mode,
     printer_name        |-> PRINTER,
     printer_opts_csv    |-> IF n >= 1 THEN Str(csv) ELSE None,
     printer_uri         |-> IF n >= 2 THEN Str(uri) ELSE None,
     ppd_path            |-> IF n >= 3 THEN Str(ppd) ELSE None,
     printer_description |-> IF n >= 4 THEN Str(desc) ELSE None,
     jamf_event          |-> IF n >= 5 THEN Str(event) ELSE None,
     overwrite_ppd       |-> IF n >= 6 THEN ow ELSE OVERWRITE]

AddArgs ==
    {ParsedArgs("Add", n, csv, uri, ppd, desc, event, ow) :
        n \in 0..6, csv \in CsvInputs, uri \in UriInputs, ppd \in PpdInputs,
        desc \in DescriptionInputs, event \in EventInputs,
        ow \in OverwriteInputs}

\* Remove reads only printer_name: called with the name alone, or the way
\* Jamf calls a script, with every parameter present and the unused ones ""
RemoveArgs ==
    {ParsedArgs("Remove", n, << >>, << >>, << >>, << >>, << >>, << >>) :
        n \in {0, 6}}

\* SCDynamicStoreCopyConsoleUser(None, None, None): (username, uid, gid)
ConsoleUsers ==
    {[username |-> Str(<<"u", "1">>), uid |-> [none |-> FALSE, n |-> 501]],
     [username |-> Str(<<"loginwindow">>), uid |-> [none |-> FALSE, n |-> 0]],
     [username |-> None, uid |-> [none |-> TRUE, n |-> 0]]}

LpstatLines ==
    {<<DEVICE_FOR, "P", COLON_SP, "lpd">>,
     <<DEVICE_FOR, "Q", COLON_SP, "usb">>,
     <<"system default destination", COLON_SP, "P">>,
     <<DEVICE_FOR, "P", COLON_SP, "Q", COLON_SP, "x">>}

RECURSIVE LinesUpTo(_)
LinesUpTo(n) ==
    IF n = 0 THEN {<< >>}
    ELSE LET shorter == LinesUpTo(n - 1)
         IN  shorter \cup {Append(ls, l) : ls \in shorter, l \in LpstatLines}

LpstatOutputs == LinesUpTo(MaxLines)

\* Exit of `launchctl asuser <uid> jamfHelper ...` under check_output:
\* launched = FALSE is an OSError, rc # 0 a CalledProcessError
DialogOutcomes ==
    {[launched |-> FALSE, rc |-> 0]}
    \cup [launched : {TRUE}, rc : {0, 1, 2, 3, 239, 243, 250}]

\* ------------------------------------------------------------------------
\* State
\* ------------------------------------------------------------------------
VARIABLES
    args,             \* parsed arguments
    ppd_on_disk,      \* a file is stored at the (non-empty) ppd_path
    pc,               \* position of main
    console_user,     \* username returned by get_console_user
    console_user_uid, \* uid returned by get_console_user
    return_success,   \* main's return_success
    printers,         \* main's printers
    printer_options,  \* main's printer_options
    message,          \* main's message
    cmd,              \* outcome of the last lpstat / lpadmin command
    jamf_cmd,         \* outcome of the policy trigger in call_jamf_policy
    jamf_success,     \* result of call_jamf_policy ("none" before the call)
    lpadmin_opts,     \* the argument after '-o' in install_printer's cmd
    asuser,           \* the uid argument of `launchctl asuser`
    dialog,           \* outcome of the dialog in display_error
    calls,            \* the functions main has called, in order
    stdout,           \* what was written to standard output, in order
    exit_code,        \* process status, -1 while running
    fault             \* the run ended with an uncaught exception

vars == <<args, ppd_on_disk, pc, console_user, console_user_uid,
          return_success, printers, printer_options, message, cmd,
          jamf_cmd, jamf_success, lpadmin_opts, asuser, dialog, calls,
          stdout, exit_code, fault>>

NoCmd == [launched |-> FALSE, err |-> "none", phrase |-> FALSE]

NoDialog == [launched |-> FALSE, rc |-> -1]

NoOptions == [type |-> "unbound", val |-> << >>]

Init ==
    /\ args \in AddArgs \cup RemoveArgs
    /\ ppd_on_disk \in BOOLEAN
    /\ pc = "get_console_user"
    /\ console_user = << >>
    /\ console_user_uid = [none |-> TRUE, n |-> 0]
    /\ return_success = FALSE
    /\ printers = << >>
    /\ printer_options = NoOptions
    /\ message = "none"
    /\ cmd = NoCmd
    /\ jamf_cmd = NoCmd
    /\ jamf_success = "none"
    /\ lpadmin_opts = << >>
    /\ asuser = << >>
    /\ dialog = NoDialog
    /\ calls = << >>
    /\ stdout = << >>
    /\ exit_code = -1
    /\ fault = FALSE

\* os.path.exists(path) for path a str
PathExists(path, onDisk) == path # << >> /\ onDisk

\* sys.exit(code)
Exit(code) ==
    /\ pc' = "done"
    /\ exit_code' = code
    /\ fault' = FALSE

\* An exception nothing catches: traceback, status 1
Uncaught ==
    /\ pc' = "done"
    /\ exit_code' = 1
    /\ fault' = TRUE

\* main, failure branches: message = ...; sys.stdout.write(message + "\n");
\* the display_error call and sys.exit(1) follow at pc = "display_error"
Fail(msg, written) ==
    /\ message' = msg
    /\ stdout' = stdout \o written \o <<msg>>
    /\ pc' = "display_error"
    /\ UNCHANGED <<exit_code, fault>>

\* ------------------------------------------------------------------------
\* get_console_user (main line 259)
\* ------------------------------------------------------------------------
NormalizedUsername(username) ==
    IF username.none \/ username.s = << >> \/ username.s = <<"loginwindow">>
    THEN << >> ELSE username.s

get_console_user ==
    /\ pc = "get_console_user"
    /\ \E u \in ConsoleUsers :
          /\ console_user' = NormalizedUsername(u.username)
          /\ console_user_uid' = u.uid
    /\ pc' = IF args.mode = "Remove" THEN "query" ELSE "validate"
    /\ UNCHANGED <<args, ppd_on_disk, return_success, printers,
                   printer_options, message, cmd, jamf_cmd, jamf_success,
                   lpadmin_opts, asuser, dialog, calls, stdout, exit_code,
                   fault>>

\* ------------------------------------------------------------------------
\* Remove: return_installed_printer_names and the branches on its result
\* ------------------------------------------------------------------------
MainRemoveQuery ==
    /\ pc = "query"
    /\ calls' = Append(calls, "return_installed_printer_names")
    /\ \E o \in CmdOutcomes, out \in LpstatOutputs :
          /\ ~o.phrase
          /\ cmd' = o
          /\ IF ~o.launched
             THEN \* out is unbound at out.splitlines(): UnboundLocalError
                  /\ stdout' = stdout \o CmdWrites(o, "Error while running lpstat.")
                  /\ Uncaught
                  /\ UNCHANGED <<return_success, printers, message>>
             ELSE /\ return_success' = QuerySuccess(o)
                  /\ printers' = InstalledPrinters(out)
                  /\ IF QuerySuccess(o)
                     THEN IF PrinterIsInstalled(args.printer_name,
                                                InstalledPrinters(out))
                          THEN /\ pc' = "remove"
                               /\ UNCHANGED <<stdout, message, exit_code, fault>>
                          ELSE Fail("is not installed", << >>)
                     ELSE Fail("error getting a list of installed printers",
                               CmdWrites(o, "Error while running lpstat."))
    /\ UNCHANGED <<args, ppd_on_disk, console_user, console_user_uid,
                   printer_options, jamf_cmd, jamf_success, lpadmin_opts,
                   asuser, dialog>>

\* ------------------------------------------------------------------------
\* Remove: remove_printer and the branches on its result
\* ------------------------------------------------------------------------
MainRemove ==
    /\ pc = "remove"
    /\ calls' = Append(calls, "remove_printer")
    /\ \E o \in CmdOutcomes :
          /\ ~o.phrase
          /\ cmd' = o
          /\ IF RemovePrinterSuccess(o)
             THEN /\ message' = "has been removed"
                  /\ stdout' = Append(stdout, "has been removed")
                  /\ Exit(0)
             ELSE Fail("was not removed",
                       CmdWrites(o, "Error while running lpstat."))
    /\ UNCHANGED <<args, ppd_on_disk, console_user, console_user_uid,
                   return_success, printers, printer_options, jamf_cmd,
                   jamf_success, lpadmin_opts, asuser, dialog>>

\* ------------------------------------------------------------------------
\* display_error(console_user_uid, message); sys.exit(1)
\* ------------------------------------------------------------------------
\* What display_error writes for a CalledProcessError
DialogWrites(o) ==
    IF o.rc # 0 /\ IntStr(o.rc) \notin BENIGN_RETURNCODES
    THEN <<"The following error occurred", "jamfHelper invalid returncodes">>
    ELSE << >>

MainDisplayError ==
    /\ pc = "display_error"
    /\ calls' = Append(calls, "display_error")
    /\ asuser' = UidStr(console_user_uid)
    /\ \E o \in DialogOutcomes :
          /\ dialog' = o
          /\ IF ~o.launched
             THEN \* OSError is not a CalledProcessError: it leaves
                  \* display_error and main
                  /\ Uncaught
                  /\ UNCHANGED stdout
             ELSE /\ stdout' = stdout \o DialogWrites(o)
                  /\ Exit(1)
    /\ UNCHANGED <<args, ppd_on_disk, console_user, console_user_uid,
                   return_success, printers, printer_options, message, cmd,
                   jamf_cmd, jamf_success, lpadmin_opts>>

\* ------------------------------------------------------------------------
\* Add: the check of the required parameters (main lines 307-316)
\* ------------------------------------------------------------------------
\* The condition of the `if` at line 307
InsufficientParameters(a) ==
    /\ IsEmptyStr(a.printer_uri)
    /\ PyStr(a.ppd_path) = << >>
    /\ IsEmptyStr(a.jamf_event)

MainAddValidate ==
    /\ pc = "validate"
    /\ IF InsufficientParameters(args)
       THEN Fail("insufficient number of parameters", << >>)
       ELSE /\ pc' = "options"
            /\ UNCHANGED <<message, stdout, exit_code, fault>>
    /\ UNCHANGED <<args, ppd_on_disk, console_user, console_user_uid,
                   return_success, printers, printer_options, cmd, jamf_cmd,
                   jamf_success, lpadmin_opts, asuser, dialog, calls>>

\* ------------------------------------------------------------------------
\* Add: printer_options and printer_model (main lines 320-327)
\* ------------------------------------------------------------------------
\* The value bound to printer_options, for printer_opts_csv a str
BuildPrinterOptions(csv) ==
    IF csv = << >>
    THEN [type |-> "str", val |-> SHARED]
    ELSE [type |-> "list", val |-> Append(Split(csv, ","), SHARED)]

MainAddOptions ==
    /\ pc = "options"
    /\ IF args.printer_opts_csv.none \/ args.ppd_path.none
       THEN \* None.split(",") is an AttributeError, and so is
            \* os.path.splitext(None)
            /\ Uncaught
            /\ printer_options' =
                  IF args.printer_opts_csv.none THEN printer_options
                  ELSE BuildPrinterOptions(args.printer_opts_csv.s)
       ELSE /\ printer_options' = BuildPrinterOptions(args.printer_opts_csv.s)
            /\ pc' = "driver"
            /\ UNCHANGED <<exit_code, fault>>
    /\ UNCHANGED <<args, ppd_on_disk, console_user, console_user_uid,
                   return_success, printers, message, cmd, jamf_cmd,
                   jamf_success, lpadmin_opts, asuser, dialog, calls, stdout>>

\* ------------------------------------------------------------------------
\* Add: call_jamf_policy when the PPD is needed (main lines 329-340)
\* ------------------------------------------------------------------------
\* Variant: without .lower()
NeedsDriverInstall_CaseSensitive(exists, overwrite_ppd) ==
    (~exists) \/ overwrite_ppd = OVERWRITE

\* The condition of the `if` at line 329
NeedsDriverInstall(exists, overwrite_ppd) ==
    (~exists) \/ Lower(overwrite_ppd) = Lower(OVERWRITE)

\* What call_jamf_policy writes
JamfWrites(o, exists) ==
    (IF o.launched /\ o.err = "empty" /\ o.phrase
     THEN <<"out">> ELSE CmdWrites(o, "Error while running lpadmin."))
    \o (IF exists THEN << >> ELSE <<"PPD is still not found">>)

MainAddDriver ==
    /\ pc = "driver"
    /\ IF ~NeedsDriverInstall(PathExists(args.ppd_path.s, ppd_on_disk),
                              args.overwrite_ppd)
       THEN /\ pc' = "install"
            /\ UNCHANGED <<ppd_on_disk, message, jamf_cmd, jamf_success,
                           calls, stdout, exit_code, fault>>
       ELSE IF args.jamf_event.none
       THEN \* "..." + None is a TypeError, before call_jamf_policy
            /\ Uncaught
            /\ UNCHANGED <<ppd_on_disk, message, jamf_cmd, jamf_success,
                           calls, stdout>>
       ELSE /\ calls' = Append(calls, "call_jamf_policy")
            /\ \E o \in CmdOutcomes, after \in BOOLEAN :
                  \* only a policy that ran changes the disk
                  /\ (~o.launched \/ args.ppd_path.s = << >>)
                        => after = ppd_on_disk
                  /\ jamf_cmd' = o
                  /\ ppd_on_disk' = after
                  /\ LET exists == PathExists(args.ppd_path.s, after)
                         ok == CallJamfPolicySuccess(o, exists)
                         written == <<"PPD needs installation">>
                                      \o JamfWrites(o, exists)
                     IN  /\ jamf_success' = IF ok THEN "true" ELSE "false"
                         /\ IF ok
                            THEN /\ pc' = "install"
                                 /\ stdout' = stdout \o written
                                 /\ UNCHANGED <<message, exit_code, fault>>
                            ELSE Fail("driver was not installed", written)
    /\ UNCHANGED <<args, console_user, console_user_uid, return_success,
                   printers, printer_options, cmd, lpadmin_opts, asuser,
                   dialog>>

\* ------------------------------------------------------------------------
\* Add: install_printer and the branches on its result (lines 348-362)
\* ------------------------------------------------------------------------
\* The argument that follows '-o' in install_printer's cmd
OptionsArgument(opts) == Join(OPT_SEP, opts)

MainAddInstall ==
    /\ pc = "install"
    /\ calls' = Append(calls, "install_printer")
    /\ lpadmin_opts' = OptionsArgument(printer_options)
    /\ \E o \in CmdOutcomes :
          /\ ~o.phrase
          \* a None in cmd is a TypeError raised by Popen, inside the try
          /\ (args.printer_uri.none \/ args.printer_description.none)
                => ~o.launched
          /\ cmd' = o
          /\ IF InstallPrinterSuccess(o)
             THEN /\ message' = "was installed successfully"
                  /\ stdout' = Append(stdout, "was installed successfully")
                  /\ Exit(0)
             ELSE Fail("was not installed",
                       CmdWrites(o, "Error trying to use lpadmin."))
    /\ UNCHANGED <<args, ppd_on_disk, console_user, console_user_uid,
                   return_success, printers, printer_options, jamf_cmd,
                   jamf_success, asuser, dialog>>

Next ==
    \/ get_console_user
    \/ MainRemoveQuery
    \/ MainRemove
    \/ MainAddValidate
    \/ MainAddOptions
    \/ MainAddDriver
    \/ MainAddInstall
    \/ MainDisplayError

Spec == Init /\ [][Next]_vars

\* Every run ends: main has no loop, and each step only waits for the
\* command it started
FairSpec == Spec /\ WF_vars(Next)

\* ------------------------------------------------------------------------
\* Properties
\* ------------------------------------------------------------------------
Called(f) == \E i \in 1..Len(calls) : calls[i] = f

TimesCalled(f) == Cardinality({i \in 1..Len(calls) : calls[i] = f})

Written(line) == \E i \in 1..Len(stdout) : stdout[i] = line

Occurrences(items, x) == Cardinality({i \in 1..Len(items) : items[i] = x})

NonEmptyStr(x) == (~x.none) /\ x.s # << >>

\* C1: in Add mode, when one of uri, ppd_path, jamf_event is empty, the run
\* ends with exit code 1 and neither call_jamf_policy nor install_printer is
\* ever called.
C1_AddWithEmptyParameterExits ==
    (/\ args.mode = "Add"
     /\ \/ IsEmptyStr(args.printer_uri)
        \/ IsEmptyStr(args.ppd_path)
        \/ IsEmptyStr(args.jamf_event))
    => /\ ~Called("call_jamf_policy")
       /\ ~Called("install_printer")
       /\ pc = "done" => exit_code = 1

\* The printer query succeeded and printer_name is not in its list
C2_NotInList ==
    /\ args.mode = "Remove"
    /\ Called("return_installed_printer_names")
    /\ cmd.launched
    /\ return_success
    /\ \A i \in 1..Len(printers) : printers[i] # args.printer_name

\* C2: in Remove mode, when the query succeeds and printer_name is not in
\* the returned list, remove_printer is never called and the run ends with
\* exit code 1.
C2_NotInstalledNeverRemoved ==
    /\ [](C2_NotInList =>
            /\ ~Called("remove_printer")
            /\ pc \in {"display_error", "done"}
            /\ Written("is not installed")
            /\ pc = "done" => exit_code = 1)
    /\ (C2_NotInList ~> (pc = "done" /\ exit_code = 1))

C2_Witness ==
    /\ C2_NotInList
    /\ Len(printers) > 0
    /\ pc = "done"
    /\ exit_code = 1
    /\ ~Called("remove_printer")

\* C3: in Remove mode, when the query succeeded, printer_name is in the list
\* and the delete-queue command ran with an empty error stream, the run ends
\* with exit code 0, remove_printer was called exactly once and display_error
\* was not called.
C3_CleanRemovalExitsZero ==
    (/\ args.mode = "Remove"
     /\ Called("remove_printer")
     /\ cmd.launched
     /\ cmd.err = "empty")
    => /\ pc = "done"
       /\ exit_code = 0
       /\ ~fault
       /\ TimesCalled("remove_printer") = 1
       /\ ~Called("display_error")
       /\ Written("has been removed")

C3_Witness ==
    /\ args.mode = "Remove"
    /\ return_success
    /\ \E i \in 1..Len(printers) : printers[i] = args.printer_name
    /\ calls = <<"return_installed_printer_names", "remove_printer">>
    /\ cmd.launched
    /\ cmd.err = "empty"
    /\ pc = "done"
    /\ exit_code = 0

C4_ValidAdd ==
    /\ args.mode = "Add"
    /\ NonEmptyStr(args.printer_uri)
    /\ NonEmptyStr(args.ppd_path)
    /\ NonEmptyStr(args.jamf_event)

UPPER_OVERWRITE == <<"O", "V", "E", "R", "W", "R", "I", "T", "E">>

\* s is "overwrite" in some mix of upper and lower case
C4_IsOverwrite(s) ==
    /\ Len(s) = Len(OVERWRITE)
    /\ \A i \in 1..Len(s) : s[i] \in {OVERWRITE[i], UPPER_OVERWRITE[i]}

\* C4: in Add mode with uri, ppd_path and jamf_event non-empty, when the
\* driver file exists and overwrite_ppd is not "overwrite" in any case,
\* call_jamf_policy is not called and install_printer is the first function
\* called after the validation; when the file is absent or overwrite_ppd is
\* "overwrite" in some case, call_jamf_policy is called.
C4_DriverSkippedOrInstalled ==
    [][/\ (C4_ValidAdd /\ pc = "driver")
            => /\ calls = << >>
               /\ IF ppd_on_disk /\ ~C4_IsOverwrite(args.overwrite_ppd)
                  THEN pc' = "install" /\ calls' = calls
                  ELSE calls' = <<"call_jamf_policy">>
       /\ (C4_ValidAdd /\ pc = "install")
            => calls' = Append(calls, "install_printer")]_vars

C4_Witness ==
    /\ C4_ValidAdd
    /\ ppd_on_disk
    /\ ~C4_IsOverwrite(args.overwrite_ppd)
    /\ calls = <<"install_printer">>
    /\ pc = "done"
    /\ exit_code = 0

\* The driver file is at ppd_path now
C5_FileAtPath == args.ppd_path.s # << >> /\ ppd_on_disk

\* C5: call_jamf_policy returns failure whenever the driver file is not at
\* ppd_path after the trigger, whatever the trigger reported; it returns
\* success exactly when the error stream is empty, the phrase "No policies
\* were found for the" is not in the output and the file exists; after a
\* failure the run ends with exit code 1 and install_printer is not called.
C5_FileCheckDecides ==
    jamf_success # "none"
    => /\ (~C5_FileAtPath) => jamf_success = "false"
       /\ jamf_success = "true"
            <=> (jamf_cmd.err = "empty" /\ ~jamf_cmd.phrase /\ C5_FileAtPath)
       /\ jamf_success = "false"
            => /\ ~Called("install_printer")
               /\ pc \in {"display_error", "done"}
               /\ pc = "done" => exit_code = 1

C5_Witness ==
    /\ jamf_success = "false"
    /\ jamf_cmd.launched
    /\ jamf_cmd.err = "empty"
    /\ ~jamf_cmd.phrase
    /\ ~C5_FileAtPath
    /\ pc = "done"
    /\ exit_code = 1
    /\ ~Called("install_printer")

\* C6: the option list handed to install_printer is a list of option
\* strings in which "printer-is-shared=False" occurs exactly once, as the
\* last element.
C6_SharedOptionOnceAndLast ==
    Called("install_printer")
    => /\ printer_options.type = "list"
       /\ Occurrences(printer_options.val, SHARED) = 1
       /\ printer_options.val[Len(printer_options.val)] = SHARED

\* C7: the options argument of the add-queue command is the entries of
\* printer_opts_csv split on commas, in order, followed by
\* "printer-is-shared=False", joined with " -o "; for an empty
\* printer_opts_csv it is exactly "printer-is-shared=False".
C7_OptionsArgumentIsJoinedList ==
    Called("install_printer")
    => lpadmin_opts =
          IF args.printer_opts_csv.s = << >>
          THEN SHARED
          ELSE JoinList(OPT_SEP,
                        Append(Split(args.printer_opts_csv.s, ","), SHARED))

C8_Diagnostics ==
    {"is not installed", "was not removed",
     "error getting a list of installed printers",
     "insufficient number of parameters", "driver was not installed",
     "was not installed"}

C8_Confirmations == {"has been removed", "was installed successfully"}

C8_Operations ==
    {"return_installed_printer_names", "remove_printer", "call_jamf_policy",
     "install_printer", "display_error"}

\* C8: a run that ends with exit code 1 has written a diagnostic line and
\* called display_error exactly once; a run that ends with exit code 0 has
\* written a confirmation line and never called display_error; no operation
\* is called more than once in a run.
C8_EveryExitReported ==
    /\ \A f \in C8_Operations : TimesCalled(f) <= 1
    /\ (pc = "done" /\ exit_code = 1)
          => /\ \E d \in C8_Diagnostics : Written(d)
             /\ TimesCalled("display_error") = 1
    /\ (pc = "done" /\ exit_code = 0)
          => /\ \E c \in C8_Confirmations : Written(c)
             /\ ~Called("display_error")

\* C9: a command that cannot be launched, or that writes to its error
\* stream, becomes a False result returned to main; when lpstat cannot be
\* launched return_installed_printer_names returns success False, and every
\* run ends on a handled path, never with an uncaught exception.
C9_CommandFailuresAreHandled ==
    /\ (calls = <<"return_installed_printer_names">> /\ cmd.err = "unbound")
          => /\ ~fault
             /\ pc = "display_error"
             /\ ~return_success
    /\ pc = "done" => (~fault /\ exit_code \in {0, 1})

\* C10: display_error returns without raising for every outcome of the
\* dialog (exit 0, a code in {2, 3, 239, 243}, another code, a launch
\* failure) and every console user, and main then exits with code 1; codes
\* outside {2, 3, 239, 243} are logged, the others are not.
C10_DialogIsBestEffort ==
    Called("display_error")
    => /\ ~fault
       /\ pc = "done"
       /\ exit_code = 1
       /\ Written("jamfHelper invalid returncodes")
            <=> (dialog.launched /\ dialog.rc \notin {0, 2, 3, 239, 243})
====
